---- MODULE Spec2Model ----
(***************************************************************************)
(* The resumable question-generation scripts (scripts/*.py and             *)
(* scripts/qa_generation/*.py) and the evaluation script                    *)
(* (scripts/evaluation/evaluation.py) as one state machine.  A behaviour   *)
(* is a sequence of runs of ONE script on its ledger file: a run loads the *)
(* ledger, filters the work units, and processes the pending units one at  *)
(* a time; the process may be killed at any step and the script run again. *)
(***************************************************************************)
EXTENDS Integers, Sequences, FiniteSets, TLC

\* ---------------------------------------------------------------- bounds
NumUnits == 2   \* work units (generation) / input records (evaluation)
MaxRuns  == 2   \* runs of the script on the same ledger

\* ------------------------------------------------------ program constants
MAX_RETRIES  == 5   \* every script but the two tempo-sync ones
TEMPO_MAX_RETRIES == 3   \* tempo_sync_qa.py, tsa_generation.py

\* ---------------------------------------------------------------- scripts
TopLevelScripts ==
    {"causal_qa", "unanswerable_qa", "pitch_timbre_qa", "performer_skill_qa",
     "tempo_sync_qa"}

CliScripts ==
    {"cr_generation", "tpr_generation", "psp_generation", "id_generation",
     "tsa_generation"}

TempoScripts == {"tempo_sync_qa", "tsa_generation"}

GenScripts == TopLevelScripts \cup CliScripts

Scripts == GenScripts \cup {"evaluation"}

\* The scripts with a --no-resume switch; the others always resume.
HasResumeFlag(s) == s \in CliScripts \cup {"evaluation"}

\* How many records one model call must yield.
ExpectedItemCount(s) ==
    CASE s \in {"pitch_timbre_qa", "tpr_generation"} -> 3
      [] s \in TempoScripts -> 1
      [] OTHER -> 2

\* max_tries of the backoff decorator around the model call.
MaxTries(s) == IF s \in TempoScripts THEN TEMPO_MAX_RETRIES ELSE MAX_RETRIES

\* The exception classes the backoff decorator retries on.
RetryableErrors(s) ==
    IF s = "id_generation" THEN {"rate_limit", "permanent"} ELSE {"rate_limit"}

\* ShouldRetry counting the retries instead of the calls: one call too many.
ShouldRetryOneMore(s, err, tries) ==
    err \in RetryableErrors(s) /\ tries <= MaxTries(s)

\* backoff.on_exception: after the tries-th call raised err, call again?
ShouldRetry(s, err, tries) == err \in RetryableErrors(s) /\ tries < MaxTries(s)

\* ----------------------------------------------------------------- ledger
\* A ledger line is a record of the pipeline ("rec") or a malformed line:
\* not JSON at all ("garbage"), JSON that is no object ("nonobj"), or an
\* object without the identity field ("noid").
MalformedKinds == {"garbage", "nonobj", "noid"}

MalformedLine(k) == [kind |-> k, id |-> 0]

Units == 1 .. NumUnits

\* The identity of a unit: the file stem (generation), the question text
\* (evaluation).
Ident(u) == u

\* The identities on the parseable lines of a ledger.
IdsIn(led) == {led[i].id : i \in {j \in DOMAIN led : led[j].kind = "rec"}}

\* Does the run read the ledger before processing?
ReadsLedger(s, res) == s # "tempo_sync_qa" /\ res

\* The malformed lines the ledger loader steps over: a bare except (or
\* except Exception) catches everything; (JSONDecodeError, KeyError) lets the
\* TypeError of subscripting a non-object through; evaluation.py's main parses
\* every line unguarded and calls .get on the result.
ToleratedLines(s) ==
    CASE s \in {"causal_qa", "performer_skill_qa", "cr_generation",
                "psp_generation", "id_generation"} -> MalformedKinds
      [] s \in {"unanswerable_qa", "pitch_timbre_qa", "tpr_generation",
                "tsa_generation"} -> {"garbage", "noid"}
      [] s = "evaluation" -> {"noid"}
      [] OTHER -> MalformedKinds

LoadRaises(s, led, res) ==
    /\ ReadsLedger(s, res)
    /\ \E i \in DOMAIN led : led[i].kind \in MalformedKinds \ ToleratedLines(s)

\* done_ids / processed_ids.  evaluation.py collects rec.get('question'),
\* which is None (0 here) for an object without the field.
get_processed_ids(s, led, res) ==
    IF ~ReadsLedger(s, res) THEN {}
    ELSE IF s = "evaluation"
         THEN {led[i].id : i \in {j \in DOMAIN led : led[j].kind \in {"rec", "noid"}}}
         ELSE IdsIn(led)

RECURSIVE FilterPending(_, _)
FilterPending(us, done) ==
    IF us = <<>> THEN <<>>
    ELSE IF Ident(Head(us)) \in done
         THEN FilterPending(Tail(us), done)
         ELSE <<Head(us)>> \o FilterPending(Tail(us), done)

Enumeration == [u \in Units |-> u]

\* files_to_process without the filter: every unit is pending.
files_to_process_unfiltered(s, led, res) == Enumeration

\* files_to_process / records_to_process
files_to_process(s, led, res) ==
    FilterPending(Enumeration, get_processed_ids(s, led, res))

\* ------------------------------------------------------------- generation
\* The companion captions of a unit.
Material == {"ok", "missing", "empty"}

\* The states of the companion material on which the loop skips the unit
\* before calling the model.
SkippedMaterial(s) ==
    CASE s \in {"causal_qa", "cr_generation", "performer_skill_qa",
                "psp_generation"} \cup TempoScripts -> {"missing", "empty"}
      [] s \in {"unanswerable_qa", "pitch_timbre_qa", "tpr_generation"} -> {"missing"}
      [] OTHER -> {}

\* An item of the model's answer.
ItemKinds == {"valid", "missing_key"}

\* validate_item / validate; the tempo-sync scripts validate nothing.
ValidItem(s, it) == s \in TempoScripts \/ it = "valid"

RECURSIVE SeqsUpTo(_, _)
SeqsUpTo(S, n) ==
    IF n = 0 THEN {<<>>}
    ELSE LET shorter == SeqsUpTo(S, n - 1)
         IN  shorter \cup {Append(q, x) : q \in {r \in shorter : Len(r) = n - 1}, x \in S}

\* What the model service can answer to one call of script s: no JSON, a
\* JSON scalar, one JSON object, or a JSON list of up to one item more than
\* the script expects.
GenBodies(s) ==
    {[kind |-> "notjson", items |-> <<>>], [kind |-> "scalar", items |-> <<>>]}
    \cup {[kind |-> "object", items |-> <<it>>] : it \in ItemKinds}
    \cup {[kind |-> "list", items |-> q] :
             q \in SeqsUpTo(ItemKinds, ExpectedItemCount(s) + 1)}

ServiceErrors == {"rate_limit", "permanent"}

\* json.loads plus the shape check of the main loop: does the body pass?
Accepted(s, body) ==
    IF s \in TempoScripts
    THEN body.kind = "object"
    ELSE body.kind = "list" /\ Len(body.items) = ExpectedItemCount(s)

GenRecord(vid) == [kind |-> "rec", id |-> vid]

\* open_file emptying the file whatever the mode.
open_file_truncating(mode, led) == <<>>

\* The lines of a file after open(mode): "a" keeps them, "w" empties the file.
open_file(mode, led) == IF mode = "w" THEN <<>> ELSE led

\* flushed putting the new lines before the old ones.
flushed_in_front(led, buf) == buf \o led

\* The lines of the file once the lines in the file object's buffer reached
\* it: they follow the lines the file holds.
flushed(led, buf) == led \o buf

\* AfterFailure leaving the loop: a failed unit ends the batch.
AfterFailureStop(p) == <<>>

\* The pending list once the unit in flight failed or was skipped: the
\* except clause (or the continue) goes on with the next unit.
AfterFailure(p) == Tail(p)

\* Is the trailing time.sleep of the loop body reached when the call block
\* raised?  Seven scripts leave the turn with "continue"; cr_generation has
\* one try block with the sleep after it, and the tempo-sync scripts get None
\* from gpt4o_request and fall through to the sleep.
sleeps_after_call_failure(s) == s \in TempoScripts \cup {"cr_generation"}

\* Is time.sleep reached when validate_item raised?  causal_qa and
\* unanswerable_qa "continue" in the except clause; id_generation sleeps
\* inside the try block, after the flush.
sleeps_after_validation_failure(s) ==
    s \notin {"causal_qa", "unanswerable_qa", "id_generation"}

\* evaluation.py sleeps after the answer check, after the factual call and
\* after the sanitizer call on the gold reasoning; the sanitizer call on the
\* generated reasoning is followed by the scorer and the append.
sleeps_after(call) == call \in {"answer", "factual", "san_gold"}

VARIABLES
    script,       \* the script run on this ledger
    resume,       \* args.resume (not args.no_resume) of the current run
    run,          \* number of runs started
    pc,           \* where the current run is
    ledger,       \* the lines of the ledger file on disk
    buffer,       \* lines written to the open file but not yet on disk
    pending,      \* units still to process; its head is the unit in flight
    items,        \* items of the accepted answer still to validate and write
    evalStage,    \* evaluation: the call the record in flight is waiting for
    enriched,     \* evaluation: sub-records of the record in flight
    processed,    \* evaluation: processed_records, in memory
    startLedger,  \* the ledger as it was when the current run started
    planned,      \* files_to_process / records_to_process of the current run
    tries,        \* service calls made so far by the most recent invoke
    lastError,    \* what the most recent service call raised ("none" if nothing)
    written,      \* per unit: records written to the file object this run
    stage,        \* per unit: where it is in its life cycle this run
    reason,       \* per unit: why it was skipped or failed ("none" if not)
    callLog,      \* per unit: the model-client and scorer invokes, in order
    material,     \* companion captions of the unit in flight ("none": not read)
    paused,       \* has time.sleep run since the last call of the model service?
    response,     \* one unit in detail: the parsed answer of the model
    qa_items,     \* one unit in detail: items still to validate and write
    unit_out,     \* one unit in detail: the lines written for the unit
    upc,          \* one unit in detail: where its processing is
    raw,          \* one answer text: as the model service returned it
    txt,          \* one answer text: after the clean-ups applied so far
    prev,         \* one answer text: before the most recent clean-up
    applied,      \* one answer text: number of clean-ups applied
    disk,         \* two processes: the ledger file both of them use
    out_f,        \* two processes: per process, its file object on the ledger
    todo,         \* two processes: per process, its files_to_process
    ppc           \* two processes: per process, where it is

\* The variables of the detailed view of one unit; the runs leave them alone.
unitVars == <<response, qa_items, unit_out, upc>>

\* The variables of the runs.
runVars == <<script, resume, run, pc, ledger, buffer, pending, items, evalStage,
             enriched, processed, startLedger, planned, tries, lastError,
             written, stage, reason, callLog, material, paused>>

\* The variables of the view of one answer text.
textVars == <<raw, txt, prev, applied>>

\* The variables of the view of two processes on one ledger.
pairVars == <<disk, out_f, todo, ppc>>

\* What the steps of a run leave alone, and what the steps on one unit do.
beyondRuns == <<unitVars, textVars, pairVars>>
beyondUnit == <<runVars, textVars, pairVars>>

vars == <<runVars, unitVars, textVars, pairVars>>

\* The two processes of the view of two processes.
Procs == {"first", "second"}

NoEnrichment == [is_correct |-> "none", factual |-> "none"]

InitialLedgers == {<<>>} \cup {<<MalformedLine(k)>> : k \in MalformedKinds}

\* The detailed view of one unit is not in use.
UnitOff ==
    /\ response = [kind |-> "none", items |-> <<>>]
    /\ qa_items = <<>>
    /\ unit_out = <<>>
    /\ upc = "off"

\* The view of one answer text is not in use.
TextOff ==
    /\ raw = <<>>
    /\ txt = <<>>
    /\ prev = <<>>
    /\ applied = 0

\* The view of two processes is not in use.
PairOff ==
    /\ disk = <<>>
    /\ out_f = [p \in Procs |-> "closed"]
    /\ todo = [p \in Procs |-> <<>>]
    /\ ppc = [p \in Procs |-> "off"]

\* No run has started.
RunIdle ==
    /\ resume = TRUE
    /\ run = 0
    /\ pc = "idle"
    /\ buffer = <<>>
    /\ pending = <<>>
    /\ items = <<>>
    /\ evalStage = "none"
    /\ enriched = NoEnrichment
    /\ processed = <<>>
    /\ startLedger = <<>>
    /\ planned = <<>>
    /\ tries = 0
    /\ lastError = "none"
    /\ written = [u \in Units |-> 0]
    /\ stage = [u \in Units |-> "pending"]
    /\ reason = [u \in Units |-> "none"]
    /\ callLog = [u \in Units |-> <<>>]
    /\ material = "none"
    /\ paused = TRUE

Init ==
    /\ script \in Scripts
    /\ ledger \in InitialLedgers
    /\ RunIdle
    /\ UnitOff
    /\ TextOff
    /\ PairOff

Running == pc \in {"loop", "call", "items", "branch", "score", "writing"}

\* load_processed_records forgetting the prior output.
load_processed_records_none(s, led, res) == <<>>

\* processed_records before the loop: evaluation.py starts from the records
\* of its prior output unless --no-resume is given (a record is the JSON
\* value of its line: json.loads here and json.dumps at the end give the
\* same value back); the generation scripts keep no such list.
load_processed_records(s, led, res) ==
    IF s = "evaluation" /\ res THEN led ELSE <<>>

\* The script is started: argument parsing, loading of the ledger, filter.
StartRun ==
    /\ ~Running
    /\ run < MaxRuns
    /\ \E r \in (IF HasResumeFlag(script) THEN BOOLEAN ELSE {TRUE}) :
        /\ resume' = r
        /\ IF LoadRaises(script, ledger, r)
           THEN /\ pc' = "aborted"
                /\ planned' = <<>>
                /\ processed' = <<>>
                /\ UNCHANGED ledger
           ELSE /\ pc' = "loop"
                /\ ledger' = IF script \in GenScripts
                             THEN open_file("a", ledger) ELSE ledger
                /\ planned' = files_to_process(script, ledger, r)
                /\ processed' = load_processed_records(script, ledger, r)
    /\ pending' = planned'
    /\ run' = run + 1
    /\ startLedger' = ledger
    /\ buffer' = <<>>
    /\ items' = <<>>
    /\ evalStage' = "none"
    /\ enriched' = NoEnrichment
    /\ tries' = 0
    /\ lastError' = "none"
    /\ written' = [u \in Units |-> 0]
    /\ stage' = [u \in Units |-> "pending"]
    /\ reason' = [u \in Units |-> "none"]
    /\ callLog' = [u \in Units |-> <<>>]
    /\ UNCHANGED script
    /\ UNCHANGED beyondRuns
    /\ material' = "none"
    /\ paused' = TRUE

\* The unit in flight ends skipped: the except clause (or the continue).
SkipUnit(u, why) ==
    /\ stage' = [stage EXCEPT ![u] = "skipped"]
    /\ reason' = [reason EXCEPT ![u] = why]
    /\ pending' = AfterFailure(pending)
    /\ items' = <<>>
    /\ material' = "none"
    /\ pc' = "loop"

\* Top of the generation loop: the companion captions are read.
NextUnit ==
    /\ script \in GenScripts
    /\ pc = "loop"
    /\ pending # <<>>
    /\ LET u == Head(pending) IN
       \E m \in Material :
          IF m \in SkippedMaterial(script)
          THEN /\ SkipUnit(u, "missing_input")
               /\ UNCHANGED <<tries, lastError>>
          ELSE /\ pc' = "call"
               /\ tries' = 0
               /\ lastError' = "none"
               /\ material' = m
               /\ UNCHANGED <<stage, reason, pending, items>>
    /\ UNCHANGED <<script, resume, run, ledger, buffer, evalStage, enriched,
                   processed, startLedger, planned, written, callLog, paused>>
    /\ UNCHANGED beyondRuns

\* One call of the model service inside gpt_call / gpt / gpt4o_request, then
\* (when it answers) json.loads and the shape check.
GenAttempt ==
    /\ script \in GenScripts
    /\ pc = "call"
    /\ LET u == Head(pending)
           n == tries + 1
       IN
       /\ tries' = n
       /\ callLog' = IF n = 1 THEN [callLog EXCEPT ![u] = Append(@, "generate")]
                     ELSE callLog
       /\ \/ \E err \in ServiceErrors :
               /\ lastError' = err
               /\ IF ShouldRetry(script, err, n)
                  THEN /\ paused' = FALSE
                       /\ UNCHANGED <<stage, reason, pending, items, pc, material>>
                  ELSE /\ SkipUnit(u, err)
                       /\ paused' = sleeps_after_call_failure(script)
          \/ \E body \in GenBodies(script) :
               /\ lastError' = "none"
               /\ IF Accepted(script, body)
                  THEN /\ items' = body.items
                       /\ stage' = [stage EXCEPT ![u] = "fetched"]
                       /\ pc' = "items"
                       /\ paused' = FALSE
                       /\ UNCHANGED <<reason, pending, material>>
                  ELSE /\ SkipUnit(u, "format_error")
                       /\ paused' = sleeps_after_call_failure(script)
    /\ UNCHANGED <<script, resume, run, ledger, buffer, evalStage, enriched,
                   processed, startLedger, planned, written>>
    /\ UNCHANGED beyondRuns

\* One turn of "for item in items: validate(item); out_f.write(...)".  The
\* written line stays in the file object's buffer unless the buffer fills
\* and is written through.
ValidateWrite ==
    /\ script \in GenScripts
    /\ pc = "items"
    /\ items # <<>>
    /\ LET u == Head(pending) IN
       IF ~ValidItem(script, Head(items))
       THEN /\ SkipUnit(u, "schema_error")
            /\ paused' = sleeps_after_validation_failure(script)
            /\ UNCHANGED <<ledger, buffer, written>>
       ELSE /\ \E spill \in BOOLEAN :
                 IF spill
                 THEN /\ ledger' = flushed(ledger, Append(buffer, GenRecord(Ident(u))))
                      /\ buffer' = <<>>
                 ELSE /\ buffer' = Append(buffer, GenRecord(Ident(u)))
                      /\ UNCHANGED ledger
            /\ written' = [written EXCEPT ![u] = @ + 1]
            /\ items' = Tail(items)
            /\ UNCHANGED <<stage, reason, pending, pc, material, paused>>
    /\ UNCHANGED <<script, resume, run, evalStage, enriched, processed,
                   startLedger, planned, tries, lastError, callLog>>
    /\ UNCHANGED beyondRuns

\* out_f.flush() after the last item and the time.sleep that ends the turn,
\* then on to the next unit.
FlushUnit ==
    /\ script \in GenScripts
    /\ pc = "items"
    /\ items = <<>>
    /\ ledger' = flushed(ledger, buffer)
    /\ buffer' = <<>>
    /\ stage' = [stage EXCEPT ![Head(pending)] = "appended"]
    /\ pending' = Tail(pending)
    /\ pc' = "loop"
    /\ UNCHANGED <<script, resume, run, items, evalStage, enriched, processed,
                   startLedger, planned, tries, lastError, written, reason, callLog>>
    /\ UNCHANGED beyondRuns
    /\ material' = "none"
    /\ paused' = TRUE

\* Finish not waiting for the end of the loop.
FinishEarly ==
    /\ script \in GenScripts
    /\ pc = "loop"
    /\ ledger' = flushed(ledger, buffer)
    /\ buffer' = <<>>
    /\ pc' = "done"
    /\ UNCHANGED <<script, resume, run, pending, items, evalStage, enriched,
                   processed, startLedger, planned, tries, lastError, written, stage,
                   reason, callLog>>
    /\ UNCHANGED beyondRuns
    /\ UNCHANGED <<material, paused>>

\* The loop is over: the with block closes the file, which flushes it.
Finish ==
    /\ script \in GenScripts
    /\ pc = "loop"
    /\ pending = <<>>
    /\ ledger' = flushed(ledger, buffer)
    /\ buffer' = <<>>
    /\ pc' = "done"
    /\ UNCHANGED <<script, resume, run, pending, items, evalStage, enriched,
                   processed, startLedger, planned, tries, lastError, written, stage,
                   reason, callLog>>
    /\ UNCHANGED beyondRuns
    /\ UNCHANGED <<material, paused>>

\* ------------------------------------------------------------- evaluation
\* What the model service can answer to one call of call_llm: no JSON, JSON
\* that is no object, or an object.  In the answer check the object holds
\* is_correct as true, false, another truthy value, another falsy value, or
\* does not hold it.
IsCorrectAnswers == {"true", "false", "truthy", "falsy", "absent"}

EvalBodies(call) ==
    {[kind |-> "notjson", is_correct |-> "absent"],
     [kind |-> "nondict", is_correct |-> "absent"]}
    \cup {[kind |-> "dict", is_correct |-> v] :
            v \in (IF call = "answer" THEN IsCorrectAnswers ELSE {"absent"})}

\* Does the code get through the call's answer?  json.loads raises on what is
\* no JSON; .get raises on what is no object (the factual answer is stored
\* as it comes).
Usable(call, body) ==
    /\ body.kind # "notjson"
    /\ call # "factual" => body.kind = "dict"

\* answer_eval.get("is_correct", False)
IsCorrectOf(body) == IF body.is_correct = "absent" THEN "false" ELSE body.is_correct

\* "if is_correct:"
Truthy(v) == v \in {"true", "truthy"}

\* NextCall with the two sanitizer calls in the other order.
NextCallSwapped(call) ==
    CASE call = "factual" -> "san_gen"
      [] call = "san_gen" -> "san_gold"
      [] OTHER -> "score"

\* The call after `call` in the fully scored branch ("score": the scorer).
NextCall(call) ==
    CASE call = "factual"  -> "san_gold"
      [] call = "san_gold" -> "san_gen"
      [] OTHER -> "score"

\* ZeroScored fixing only the factual score.
ZeroScoredFactualOnly(u, ic) ==
    [kind |-> "rec", id |-> Ident(u), src |-> u, is_correct |-> ic,
     factual |-> "zero", core |-> "none"]

\* The input record u as appended in the else branch: both scores fixed at
\* 0.0.  (src: the line of the input ledger the record was read from.)
ZeroScored(u, ic) ==
    [kind |-> "rec", id |-> Ident(u), src |-> u, is_correct |-> ic,
     factual |-> "zero", core |-> "zero"]

\* FullyScored leaving the core inference sub-record out.
FullyScoredNoCore(u, ic, f) ==
    [kind |-> "rec", id |-> Ident(u), src |-> u, is_correct |-> ic,
     factual |-> f, core |-> "none"]

\* The input record u as appended after the scorer call.
FullyScored(u, ic, f) ==
    [kind |-> "rec", id |-> Ident(u), src |-> u, is_correct |-> ic,
     factual |-> f, core |-> "nli"]

\* The record in flight raised: "except Exception ... continue".
FailRecord(u, why) ==
    /\ stage' = [stage EXCEPT ![u] = "failed"]
    /\ reason' = [reason EXCEPT ![u] = why]
    /\ pending' = AfterFailure(pending)
    /\ evalStage' = "none"
    /\ enriched' = NoEnrichment
    /\ pc' = "loop"

\* SkipIncomplete appending the record with both scores at zero.
SkipIncompleteZeroScored(u) ==
    /\ stage' = [stage EXCEPT ![u] = "skipped"]
    /\ reason' = [reason EXCEPT ![u] = "incomplete"]
    /\ pending' = AfterFailure(pending)
    /\ processed' = Append(processed, ZeroScored(u, "false"))
    /\ written' = [written EXCEPT ![u] = @ + 1]
    /\ UNCHANGED <<pc, evalStage>>

\* "if not all([...]): ... continue": a record lacking a field is passed
\* over; nothing is appended to processed_records.
SkipIncomplete(u) ==
    /\ stage' = [stage EXCEPT ![u] = "skipped"]
    /\ reason' = [reason EXCEPT ![u] = "incomplete"]
    /\ pending' = AfterFailure(pending)
    /\ UNCHANGED <<pc, evalStage, processed, written>>

\* Top of the evaluation loop: the fields of the record are read.
EvalNextRecord ==
    /\ script = "evaluation"
    /\ pc = "loop"
    /\ pending # <<>>
    /\ LET u == Head(pending) IN
       \E complete \in BOOLEAN :
          IF ~complete
          THEN SkipIncomplete(u)
          ELSE /\ stage' = [stage EXCEPT ![u] = "loaded"]
               /\ evalStage' = "answer"
               /\ pc' = "call"
               /\ UNCHANGED <<reason, pending, processed, written>>
    /\ tries' = 0
    /\ lastError' = "none"
    /\ UNCHANGED <<script, resume, run, ledger, buffer, items, enriched,
                   startLedger, planned, callLog>>
    /\ UNCHANGED beyondRuns
    /\ UNCHANGED <<material, paused>>

\* One call of the model service inside call_llm, then (when it answers)
\* json.loads and the use the main loop makes of the answer.
EvalAttempt ==
    /\ script = "evaluation"
    /\ pc = "call"
    /\ LET u == Head(pending)
           n == tries + 1
       IN
       /\ callLog' = IF n = 1 THEN [callLog EXCEPT ![u] = Append(@, evalStage)]
                     ELSE callLog
       /\ \/ \E err \in ServiceErrors :
               /\ tries' = n
               /\ lastError' = err
               /\ paused' = FALSE
               /\ IF ShouldRetry(script, err, n)
                  THEN UNCHANGED <<stage, reason, pending, evalStage, enriched, pc>>
                  ELSE FailRecord(u, err)
          \/ \E body \in EvalBodies(evalStage) :
               /\ tries' = IF /\ Usable(evalStage, body)
                              /\ evalStage # "answer"
                              /\ NextCall(evalStage) # "score"
                           THEN 0   \* the next invoke starts
                           ELSE n
               /\ lastError' = "none"
               /\ paused' = (Usable(evalStage, body) /\ sleeps_after(evalStage))
               /\ IF ~Usable(evalStage, body)
                  THEN FailRecord(u, "format_error")
                  ELSE IF evalStage = "answer"
                  THEN /\ enriched' = [enriched EXCEPT !.is_correct = IsCorrectOf(body)]
                       /\ stage' = [stage EXCEPT ![u] = "answer_checked"]
                       /\ pc' = "branch"
                       /\ UNCHANGED <<reason, pending, evalStage>>
                  ELSE /\ enriched' = IF evalStage = "factual"
                                      THEN [enriched EXCEPT !.factual = "model"]
                                      ELSE enriched
                       /\ evalStage' = NextCall(evalStage)
                       /\ pc' = IF NextCall(evalStage) = "score" THEN "score" ELSE "call"
                       /\ UNCHANGED <<stage, reason, pending>>
    /\ UNCHANGED <<script, resume, run, ledger, buffer, items, processed,
                   startLedger, planned, written>>
    /\ UNCHANGED beyondRuns
    /\ UNCHANGED material

\* "if is_correct:" either starts the scoring calls or appends the
\* zero-scored record.
EvalBranch ==
    /\ script = "evaluation"
    /\ pc = "branch"
    /\ LET u == Head(pending) IN
       IF Truthy(enriched.is_correct)
       THEN /\ evalStage' = "factual"
            /\ tries' = 0
            /\ pc' = "call"
            /\ UNCHANGED <<stage, pending, enriched, processed, written>>
       ELSE /\ processed' = Append(processed, ZeroScored(u, enriched.is_correct))
            /\ stage' = [stage EXCEPT ![u] = "zero_scored"]
            /\ written' = [written EXCEPT ![u] = @ + 1]
            /\ pending' = Tail(pending)
            /\ evalStage' = "none"
            /\ enriched' = NoEnrichment
            /\ pc' = "loop"
            /\ UNCHANGED tries
    /\ UNCHANGED <<script, resume, run, ledger, buffer, items, startLedger,
                   planned, lastError, reason, callLog>>
    /\ UNCHANGED beyondRuns
    /\ UNCHANGED <<material, paused>>

\* nli_model.predict on the two sanitized claims, then the append.
EvalScore ==
    /\ script = "evaluation"
    /\ pc = "score"
    /\ LET u == Head(pending) IN
       /\ callLog' = [callLog EXCEPT ![u] = Append(@, "nli")]
       /\ \E ok \in BOOLEAN :
            IF ok
            THEN /\ processed' = Append(processed,
                        FullyScored(u, enriched.is_correct, enriched.factual))
                 /\ stage' = [stage EXCEPT ![u] = "fully_scored"]
                 /\ written' = [written EXCEPT ![u] = @ + 1]
                 /\ pending' = Tail(pending)
                 /\ evalStage' = "none"
                 /\ enriched' = NoEnrichment
                 /\ pc' = "loop"
                 /\ UNCHANGED reason
            ELSE /\ FailRecord(u, "scorer_error")
                 /\ UNCHANGED <<processed, written>>
    /\ UNCHANGED <<script, resume, run, ledger, buffer, items, startLedger,
                   planned, tries, lastError>>
    /\ UNCHANGED beyondRuns
    /\ UNCHANGED <<material, paused>>

\* EvalOpenWrite not waiting for the end of the loop.
EvalOpenWriteEarly ==
    /\ script = "evaluation"
    /\ pc = "loop"
    /\ planned # <<>>
    /\ pc' = "writing"
    /\ ledger' = open_file("w", ledger)
    /\ buffer' = processed
    /\ UNCHANGED <<script, resume, run, pending, items, evalStage, enriched,
                   processed, startLedger, planned, tries, lastError, written, stage,
                   reason, callLog>>
    /\ UNCHANGED beyondRuns
    /\ UNCHANGED <<material, paused>>

\* After the loop: with nothing to process the output file is left alone;
\* otherwise it is opened with mode "w", which empties it, and every record
\* of processed_records is written to the file object.
EvalOpenWrite ==
    /\ script = "evaluation"
    /\ pc = "loop"
    /\ pending = <<>>
    /\ IF planned = <<>>
       THEN /\ pc' = "done"
            /\ UNCHANGED <<ledger, buffer>>
       ELSE /\ pc' = "writing"
            /\ ledger' = open_file("w", ledger)
            /\ buffer' = processed
    /\ UNCHANGED <<script, resume, run, pending, items, evalStage, enriched,
                   processed, startLedger, planned, tries, lastError, written, stage,
                   reason, callLog>>
    /\ UNCHANGED beyondRuns
    /\ UNCHANGED <<material, paused>>

\* The with block closes the output file: the records reach the disk.
EvalCloseWrite ==
    /\ script = "evaluation"
    /\ pc = "writing"
    /\ ledger' = flushed(ledger, buffer)
    /\ buffer' = <<>>
    /\ stage' = [u \in Units |->
                    IF stage[u] \in {"fully_scored", "zero_scored"}
                    THEN "written" ELSE stage[u]]
    /\ pc' = "done"
    /\ UNCHANGED <<script, resume, run, pending, items, evalStage, enriched,
                   processed, startLedger, planned, tries, lastError, written, reason,
                   callLog>>
    /\ UNCHANGED beyondRuns
    /\ UNCHANGED <<material, paused>>

\* "1.0 if rec.get('answer_correctness', {}).get('is_correct') else 0.0": a
\* line kept from the prior output that holds no answer_correctness scores 0.
answer_score(rec) == IF rec.kind = "rec" /\ Truthy(rec.is_correct) THEN 1 ELSE 0

RECURSIVE sum_scores(_)
sum_scores(recs) ==
    IF recs = <<>> THEN 0 ELSE answer_score(Head(recs)) + sum_scores(Tail(recs))

\* Formatting with two decimals, cutting the further digits off.
format_2f_truncating(num, den) == (10000 * num) \div den

\* (num / den) * 100 printed with ":.2f", in hundredths of a percent: the
\* nearest hundredth.
format_2f(num, den) == (2 * 10000 * num + den) \div (2 * den)

\* The "Answer Correctness" figure of the final statistics, in hundredths
\* of a percent; "none" when there is no record ("No evaluation data").
avg_answer(recs) ==
    IF recs = <<>> THEN "none" ELSE format_2f(sum_scores(recs), Len(recs))

\* The process is killed: what was not yet on disk is lost, and so is
\* everything the run held in memory.  Only the ledger file survives.
Kill ==
    /\ Running
    /\ pc' = "killed"
    /\ buffer' = <<>>
    /\ pending' = <<>>
    /\ items' = <<>>
    /\ evalStage' = "none"
    /\ enriched' = NoEnrichment
    /\ processed' = <<>>
    /\ planned' = <<>>
    /\ tries' = 0
    /\ lastError' = "none"
    /\ written' = [u \in Units |-> 0]
    /\ stage' = [u \in Units |-> "pending"]
    /\ reason' = [u \in Units |-> "none"]
    /\ callLog' = [u \in Units |-> <<>>]
    /\ UNCHANGED <<script, resume, run, ledger, startLedger>>
    /\ UNCHANGED beyondRuns
    /\ material' = "none"
    /\ paused' = TRUE

Next ==
    \/ StartRun
    \/ NextUnit
    \/ GenAttempt
    \/ ValidateWrite
    \/ FlushUnit
    \/ Finish
    \/ EvalNextRecord
    \/ EvalAttempt
    \/ EvalBranch
    \/ EvalScore
    \/ EvalOpenWrite
    \/ EvalCloseWrite
    \/ Kill

Spec == Init /\ [][Next]_vars

\* The counters of the final summary of cr_generation.py.  success_count is
\* incremented after the flush of a unit, error_count where a unit is
\* skipped (missing or empty captions, the except clause): the places where
\* the unit's stage becomes appended and skipped.
success_count == Cardinality({u \in Units : stage[u] = "appended"})

error_count == Cardinality({u \in Units : stage[u] = "skipped"})

\* ------------------------------------------- generation runs left to run
\* The generation scripts when no process is killed.  A started process goes
\* on: the interpreter takes the next statement, and a call of the model
\* service returns or raises.  Nothing makes anybody start a run.
GenInit == Init /\ script \in GenScripts

GenStep ==
    \/ NextUnit
    \/ GenAttempt
    \/ ValidateWrite
    \/ FlushUnit
    \/ Finish

GenNext ==
    \/ StartRun
    \/ GenStep

GenLiveSpec == GenInit /\ [][GenNext]_vars /\ WF_vars(GenStep)

\* ------------------------------------------------- one unit, in detail
\* The loop body from the parsed answer of the model to the flush, with the
\* content of the items: which keys an item holds, the labels of its options
\* mapping, its correct_answer_key, and the video_id and category the model
\* gave it.
FieldKeys == {"question", "options", "correct_answer_key", "gold_reasoning"}

AllKeys == FieldKeys \cup {"video_id", "category"}

\* The set `required` of validate_item / validate of script s (the
\* tempo-sync scripts have no such function).
required(s) ==
    CASE s \in {"causal_qa", "unanswerable_qa", "cr_generation",
                "id_generation"} -> AllKeys
      [] s \in TempoScripts -> {}
      [] OTHER -> FieldKeys

\* The category tag script s stamps on its records.
CATEGORY(s) ==
    CASE s \in {"causal_qa", "cr_generation"} -> "causal_reasoning"
      [] s = "unanswerable_qa" -> "unanswerability"
      [] s = "id_generation" -> "implicit_distractions"
      [] s \in {"pitch_timbre_qa", "tpr_generation"} -> "pitch_timbre_reasoning"
      [] s \in {"performer_skill_qa", "psp_generation"} -> "performer_skill_profiling"
      [] OTHER -> "tempo_av_sync_analysis"

\* Only unanswerable_qa.py checks the size of the options mapping.
ChecksOptionCount(s) == s = "unanswerable_qa"

KeySets ==
    {AllKeys, FieldKeys, AllKeys \ {"gold_reasoning"},
     AllKeys \ {"correct_answer_key"}}

OptionSets == {{"A", "B", "C", "D"}, {"A", "B", "C"}, {"W", "X", "Y", "Z"}}

AnswerKeys == {"A", "D", "W"}

\* The items the model may return.  A value under a key the item does not
\* hold is never read.
ModelItems ==
    {[keys |-> ks, options |-> os, correct_answer_key |-> k,
      video_id |-> "from_model", category |-> "from_model"] :
        ks \in KeySets, os \in OptionSets, k \in AnswerKeys}

\* An item with nothing wrong.
GoodItem ==
    [keys |-> AllKeys, options |-> {"A", "B", "C", "D"},
     correct_answer_key |-> "A", video_id |-> "from_model",
     category |-> "from_model"]

RECURSIVE SeqsOfLen(_, _)
SeqsOfLen(S, n) ==
    IF n = 0 THEN {<<>>}
    ELSE {Append(q, x) : q \in SeqsOfLen(S, n - 1), x \in S}

\* The answers of the model for one unit of script s: no JSON, a scalar, an
\* empty container, one object, a list of the expected length over all
\* items, or a list one shorter or longer.
UnitResponses(s) ==
    {[kind |-> k, items |-> <<>>] : k \in {"notjson", "scalar", "empty"}}
    \cup {[kind |-> "object", items |-> <<it>>] : it \in ModelItems}
    \cup {[kind |-> "list", items |-> q] :
             q \in SeqsOfLen(ModelItems, ExpectedItemCount(s))}
    \cup {[kind |-> "list", items |-> [i \in 1 .. n |-> GoodItem]] :
             n \in {ExpectedItemCount(s) - 1, ExpectedItemCount(s) + 1} \ {0}}

\* validate_item accepting every item.
validate_item_anything(s, d) == TRUE

\* Does validate_item / validate return without raising on item d?
validate_item(s, d) ==
    /\ required(s) \subseteq d.keys
    /\ ChecksOptionCount(s) => Cardinality(d.options) = 4

\* The keys the script sets on an item before writing it.
StampedKeys(s) ==
    {"video_id", "category"}
    \cup (IF s \in TempoScripts THEN {"sync_status"} ELSE {})

\* stamped leaving what the model gave.
stamped_keep_model(s, d, vid) ==
    [d EXCEPT !.keys = @ \cup StampedKeys(s),
              !.video_id = IF "video_id" \in d.keys THEN @ ELSE vid,
              !.category = IF "category" \in d.keys THEN @ ELSE CATEGORY(s)]

\* The item after d["video_id"] = vid; d["category"] = ... (qa.update in the
\* tempo-sync scripts).
stamped(s, d, vid) ==
    [d EXCEPT !.keys = @ \cup StampedKeys(s),
              !.video_id = vid,
              !.category = CATEGORY(s)]

\* The stem of the unit's file: its identity.
unit_vid == "clip"

Labels == <<"A", "B", "C", "D">>

\* The keys shuffle_qa_options can give the correct answer of qa.
ShuffledKeys(qa) == {Labels[i] : i \in 1 .. Cardinality(qa.options)}

\* Does the try block of shuffle_qa_options run to its end?  It raises when
\* a key is absent, when correct_answer_key is no key of options, and (an
\* index error) on more than four options.
ShuffleWorks(qa) ==
    /\ {"correct_answer_key", "options"} \subseteq qa.keys
    /\ qa.correct_answer_key \in qa.options
    /\ Cardinality(qa.options) <= Len(Labels)

\* shuffle_qa_options: the options relabelled A.. and the correct key put on
\* the label the shuffle gave it; on an error the item is left as it was.
shuffle_qa_options(qa, new_key) ==
    IF ShuffleWorks(qa)
    THEN [qa EXCEPT !.options = ShuffledKeys(qa), !.correct_answer_key = new_key]
    ELSE qa

\* The model has answered for one unit of one generation script.
UnitInit ==
    /\ script \in GenScripts
    /\ ledger = <<>>
    /\ RunIdle
    /\ TextOff
    /\ PairOff
    /\ response \in UnitResponses(script)
    /\ qa_items = <<>>
    /\ unit_out = <<>>
    /\ upc = "answered"

\* json.loads and the shape check (in the tempo-sync scripts "if qa:").
UnitAccept ==
    /\ upc = "answered"
    /\ IF Accepted(script, response)
       THEN /\ qa_items' = response.items
            /\ upc' = "items"
       ELSE /\ qa_items' = <<>>
            /\ upc' = "skipped"
    /\ UNCHANGED <<response, unit_out, beyondUnit>>

\* One turn of "for item in items: validate_item(item, vid); out_f.write".
UnitValidateWrite ==
    /\ upc = "items"
    /\ script \notin TempoScripts
    /\ qa_items # <<>>
    /\ IF validate_item(script, Head(qa_items))
       THEN /\ unit_out' = Append(unit_out, stamped(script, Head(qa_items), unit_vid))
            /\ qa_items' = Tail(qa_items)
            /\ UNCHANGED upc
       ELSE /\ qa_items' = <<>>
            /\ upc' = "skipped"
            /\ UNCHANGED unit_out
    /\ UNCHANGED <<response, beyondUnit>>

\* The tempo-sync scripts: shuffle_qa_options, qa.update, f.write.
TempoWrite ==
    /\ upc = "items"
    /\ script \in TempoScripts
    /\ qa_items # <<>>
    /\ LET qa == Head(qa_items) IN
       \E new_key \in (IF ShuffleWorks(qa) THEN ShuffledKeys(qa)
                       ELSE {qa.correct_answer_key}) :
          unit_out' = Append(unit_out,
                             stamped(script, shuffle_qa_options(qa, new_key), unit_vid))
    /\ qa_items' = <<>>
    /\ UNCHANGED <<upc, response, beyondUnit>>

\* out_f.flush() after the last item.
UnitFlush ==
    /\ upc = "items"
    /\ qa_items = <<>>
    /\ upc' = "appended"
    /\ UNCHANGED <<response, qa_items, unit_out, beyondUnit>>

UnitNext ==
    \/ UnitAccept
    \/ UnitValidateWrite
    \/ TempoWrite
    \/ UnitFlush

UnitSpec == UnitInit /\ [][UnitNext]_vars

\* ------------------------------------------- two processes, one ledger
\* Two processes run the same generation script on the same output file.
\* Each one does what main does: it reads the ledger and filters, opens the
\* file with mode "a" (no lock is taken, none is looked for), writes and
\* flushes the records of one unit per turn, and closes the file.
PairInit ==
    /\ script \in GenScripts
    /\ ledger = <<>>
    /\ RunIdle
    /\ UnitOff
    /\ TextOff
    /\ disk = <<>>
    /\ out_f = [p \in Procs |-> "closed"]
    /\ todo = [p \in Procs |-> <<>>]
    /\ ppc = [p \in Procs |-> "idle"]

\* The records process p writes for unit u (by: the process that wrote it).
PairRecords(p, u) ==
    [i \in 1 .. ExpectedItemCount(script) |->
        [kind |-> "rec", id |-> Ident(u), by |-> p]]

\* get_processed_ids, the filter, and output_path.open("a").
PairStart ==
    \E p \in Procs :
       /\ ppc[p] = "idle"
       /\ todo' = [todo EXCEPT ![p] = files_to_process(script, disk, TRUE)]
       /\ disk' = open_file("a", disk)
       /\ out_f' = [out_f EXCEPT ![p] = "open"]
       /\ ppc' = [ppc EXCEPT ![p] = "loop"]
       /\ UNCHANGED <<runVars, unitVars, textVars>>

\* One turn of the loop: the unit is skipped, or its records are written
\* and flushed at the end of the file.
PairTurn ==
    \E p \in Procs :
       /\ ppc[p] = "loop"
       /\ todo[p] # <<>>
       /\ \E ok \in BOOLEAN :
            disk' = IF ok THEN flushed(disk, PairRecords(p, Head(todo[p])))
                    ELSE disk
       /\ todo' = [todo EXCEPT ![p] = Tail(@)]
       /\ UNCHANGED <<out_f, ppc>>
       /\ UNCHANGED <<runVars, unitVars, textVars>>

\* The end of the with block.
PairClose ==
    \E p \in Procs :
       /\ ppc[p] = "loop"
       /\ todo[p] = <<>>
       /\ out_f' = [out_f EXCEPT ![p] = "closed"]
       /\ ppc' = [ppc EXCEPT ![p] = "done"]
       /\ UNCHANGED <<disk, todo>>
       /\ UNCHANGED <<runVars, unitVars, textVars>>

PairNext ==
    \/ PairStart
    \/ PairTurn
    \/ PairClose

PairSpec == PairInit /\ [][PairNext]_vars

\* ------------------------------------------------------ one answer text
\* The clean-up of the model's answer before json.loads.  A text is a
\* sequence of characters over an alphabet with the characters the clean-up
\* looks at and one it does not.  The alphabet holds no line break and no
\* letter of "json", so "^" matches at the start of the text only, "$" at
\* its end only, and "(json)?" matches the empty string.
\* The backtick, which a TLA+ string cannot hold.
BACKTICK == "backtick"

Alphabet == {BACKTICK, ",", " ", "}", "]", "a"}

Whitespace == {" "}

MaxLen == 4

Texts == SeqsUpTo(Alphabet, MaxLen)

RECURSIVE lstrip(_)
lstrip(t) ==
    IF t # <<>> /\ Head(t) \in Whitespace THEN lstrip(Tail(t)) ELSE t

RECURSIVE rstrip(_)
rstrip(t) ==
    IF t # <<>> /\ t[Len(t)] \in Whitespace
    THEN rstrip(SubSeq(t, 1, Len(t) - 1)) ELSE t

\* txt.strip()
strip(t) == rstrip(lstrip(t))

\* The length of the longest run of whitespace of t that starts at i: what
\* the greedy "\s*" takes.
RECURSIVE SpacesFrom(_, _)
SpacesFrom(t, i) ==
    IF i <= Len(t) /\ t[i] \in Whitespace THEN 1 + SpacesFrom(t, i + 1) ELSE 0

\* Do three backticks start at position i of t?
IsFence(t, i) ==
    /\ i + 2 <= Len(t)
    /\ t[i] = BACKTICK /\ t[i + 1] = BACKTICK /\ t[i + 2] = BACKTICK

\* The length of the match of "^```(json)?\s*|\s*```$" at position i of t
\* (0: no match there).  The first alternative is tried first.
LineFenceMatch(t, i) ==
    IF i = 1 /\ IsFence(t, 1)
    THEN 3 + SpacesFrom(t, 4)
    ELSE LET k == SpacesFrom(t, i)
         IN  IF IsFence(t, i + k) /\ i + k + 2 = Len(t) THEN k + 3 ELSE 0

\* The length of the match of "```(json)?|```" at position i of t.
AnyFenceMatch(t, i) == IF IsFence(t, i) THEN 3 ELSE 0

\* The length of the match of ",\s*}" (or ",\s*]") at position i of t.
CommaMatch(t, i, close) ==
    IF t[i] # "," THEN 0
    ELSE LET k == SpacesFrom(t, i + 1)
         IN  IF i + 1 + k <= Len(t) /\ t[i + 1 + k] = close THEN k + 2 ELSE 0

\* re.sub of the fence patterns with "": one scan from the left; after a
\* match the scan goes on behind it, and what the replacement leaves is not
\* scanned again.
RECURSIVE SubLineFence(_, _)
SubLineFence(t, i) ==
    IF i > Len(t) THEN <<>>
    ELSE IF LineFenceMatch(t, i) > 0
         THEN SubLineFence(t, i + LineFenceMatch(t, i))
         ELSE <<t[i]>> \o SubLineFence(t, i + 1)

RECURSIVE SubAnyFence(_, _)
SubAnyFence(t, i) ==
    IF i > Len(t) THEN <<>>
    ELSE IF AnyFenceMatch(t, i) > 0
         THEN SubAnyFence(t, i + AnyFenceMatch(t, i))
         ELSE <<t[i]>> \o SubAnyFence(t, i + 1)

\* re.sub(r",\s*}", "}", txt) and re.sub(r",\s*]", "]", txt)
RECURSIVE SubComma(_, _, _)
SubComma(t, i, close) ==
    IF i > Len(t) THEN <<>>
    ELSE IF CommaMatch(t, i, close) > 0
         THEN <<close>> \o SubComma(t, i + CommaMatch(t, i, close), close)
         ELSE <<t[i]>> \o SubComma(t, i + 1, close)

normalise_json_str(t) ==
    SubComma(SubComma(SubLineFence(strip(t), 1), 1, "}"), 1, "]")

clean_json_str(t) ==
    SubComma(SubComma(strip(SubAnyFence(t, 1)), 1, "}"), 1, "]")

\* normalise of id_generation.py: the fence pattern is "```(?:json)?|```",
\* which matches what the one of clean_json_str matches.
normalise(t) ==
    SubComma(SubComma(strip(SubAnyFence(t, 1)), 1, "}"), 1, "]")

\* The scripts that clean the answer with normalise_json_str and with
\* clean_json_str.
NormaliseScripts == {"causal_qa", "unanswerable_qa", "cr_generation", "evaluation"}

CleanScripts == {"pitch_timbre_qa", "tpr_generation"}

\* The clean-up of script s.
cleaned(s, t) ==
    IF s \in CleanScripts THEN clean_json_str(t)
    ELSE IF s = "id_generation" THEN normalise(t)
    ELSE normalise_json_str(t)

\* How often the clean-up is applied to one text.
MaxApplied == 2

TextInit ==
    /\ script \in NormaliseScripts \cup CleanScripts \cup {"id_generation"}
    /\ ledger = <<>>
    /\ RunIdle
    /\ UnitOff
    /\ PairOff
    /\ raw \in Texts
    /\ txt = raw
    /\ prev = raw
    /\ applied = 0

\* The clean-up is applied to the text.
TextClean ==
    /\ applied < MaxApplied
    /\ prev' = txt
    /\ txt' = cleaned(script, txt)
    /\ applied' = applied + 1
    /\ UNCHANGED <<raw, runVars, unitVars, pairVars>>

TextNext == TextClean

TextSpec == TextInit /\ [][TextNext]_vars

\* ------------------------------------------- units that share a name
\* Runs of evaluation.py and of tsa_generation.py on inputs in which two
\* units share the field the resume filter looks at.  For evaluation.py a
\* unit is an input record: name is its question text and side its video_id
\* (the templates of the generation prompts give the same question text to
\* many videos).  For tsa_generation.py a unit is a pair of caption files:
\* name is the file name they have, side the directory tree (aligned or
\* misaligned) they were found in.
Names == {"n1", "n2"}

Sides == {"s1", "s2"}

Twins == [name : Names, side : Sides]

\* rec.get('question') / item["vis_path"].stem
TwinIdent(w) == w.name

\* all_records in the order of the input file.
TwinInput ==
    << [name |-> "n1", side |-> "s1"], [name |-> "n1", side |-> "s2"],
       [name |-> "n2", side |-> "s1"], [name |-> "n2", side |-> "s2"] >>

\* The record of unit w (src: the unit it was made from).
TwinRecord(w) == [kind |-> "rec", id |-> TwinIdent(w), src |-> w]

\* "[f for f in files_to_process if f[...].stem not in done_ids]" and
\* "[rec for rec in all_records if rec.get('question') not in processed_ids]"
RECURSIVE TwinFilter(_, _)
TwinFilter(ws, done) ==
    IF ws = <<>> THEN <<>>
    ELSE IF TwinIdent(Head(ws)) \in done
         THEN TwinFilter(Tail(ws), done)
         ELSE <<Head(ws)>> \o TwinFilter(Tail(ws), done)

\* The orders in which the units of ws can be processed: the order of the
\* input file in evaluation.py, any order after random.shuffle in
\* tsa_generation.py.
TwinOrders(s, ws) ==
    IF s = "evaluation" THEN {ws}
    ELSE {q \in [DOMAIN ws -> {ws[i] : i \in DOMAIN ws}] :
             \A i \in DOMAIN ws : \E j \in DOMAIN ws : q[j] = ws[i]}

TwinInit ==
    /\ script \in {"evaluation", "tsa_generation"}
    /\ ledger = <<>>
    /\ RunIdle
    /\ UnitOff
    /\ TextOff
    /\ PairOff

\* The script is started with resume on: ledger, filter, open.
TwinStart ==
    /\ pc \in {"idle", "done"}
    /\ run < MaxRuns
    /\ run' = run + 1
    /\ startLedger' = ledger
    /\ pending' \in TwinOrders(script,
                      TwinFilter(TwinInput, get_processed_ids(script, ledger, TRUE)))
    /\ planned' = pending'
    /\ processed' = load_processed_records(script, ledger, TRUE)
    /\ ledger' = IF script \in GenScripts THEN open_file("a", ledger) ELSE ledger
    /\ pc' = "loop"
    /\ UNCHANGED <<script, resume, buffer, items, evalStage, enriched, tries,
                   lastError, written, stage, reason, callLog, material, paused>>
    /\ UNCHANGED beyondRuns

\* One turn of the loop: the unit fails, or its record is written and
\* flushed (tsa_generation.py) or appended to processed_records
\* (evaluation.py).
TwinTurn ==
    /\ pc = "loop"
    /\ pending # <<>>
    /\ \E ok \in BOOLEAN :
         IF ~ok THEN UNCHANGED <<ledger, processed>>
         ELSE IF script = "evaluation"
         THEN /\ processed' = Append(processed, TwinRecord(Head(pending)))
              /\ UNCHANGED ledger
         ELSE /\ ledger' = flushed(ledger, <<TwinRecord(Head(pending))>>)
              /\ UNCHANGED processed
    /\ pending' = Tail(pending)
    /\ UNCHANGED <<script, resume, run, pc, buffer, items, evalStage, enriched,
                   startLedger, planned, tries, lastError, written, stage, reason,
                   callLog, material, paused>>
    /\ UNCHANGED beyondRuns

\* The end of the loop: evaluation.py rewrites its output from
\* processed_records unless there was nothing to process.
TwinFinish ==
    /\ pc = "loop"
    /\ pending = <<>>
    /\ ledger' = IF script = "evaluation" /\ planned # <<>>
                 THEN flushed(open_file("w", ledger), processed)
                 ELSE ledger
    /\ pc' = "done"
    /\ UNCHANGED <<script, resume, run, buffer, pending, items, evalStage,
                   enriched, processed, startLedger, planned, tries, lastError,
                   written, stage, reason, callLog, material, paused>>
    /\ UNCHANGED beyondRuns

TwinNext ==
    \/ TwinStart
    \/ TwinTurn
    \/ TwinFinish

TwinSpec == TwinInit /\ [][TwinNext]_vars

\* --------------------------------------------- one shuffle, in detail
\* shuffle_qa_options of the tempo-sync scripts on one question, with the
\* texts of the options.  qa["options"] is a dict: here the sequence of its
\* (label, text) pairs in insertion order.  The question is in qa_items, the
\* returned one in unit_out.
MaxOptions == 5

OptionTexts == {"t1", "t2", "t3"}

\* The labels the model gave the options, in the order it listed them.
ModelLabels == <<"D", "C", "B", "A", "E">>

\* The questions the model may return: up to MaxOptions options, any texts,
\* a correct_answer_key that is a label of the options or is not ("Q"), or
\* no correct_answer_key at all.
ShuffleInputs ==
    UNION {
      {[keys |-> ks,
        options |-> [i \in 1 .. n |-> <<ModelLabels[i], tx[i]>>],
        correct_answer_key |-> k] :
          ks \in {{"options", "correct_answer_key"}, {"options"}},
          tx \in [1 .. n -> OptionTexts],
          k \in {ModelLabels[i] : i \in 1 .. MaxOptions} \cup {"Q"}} :
      n \in 0 .. MaxOptions}

\* qa["options"][label]; "missing" stands for the KeyError.
TextAt(opts, label) ==
    IF \E i \in DOMAIN opts : opts[i][1] = label
    THEN opts[CHOOSE i \in DOMAIN opts : opts[i][1] = label][2]
    ELSE "missing"

\* The orders random.shuffle can put n items in.
ShuffleOrders(n) ==
    {p \in [1 .. n -> 1 .. n] : \A i \in 1 .. n : \E j \in 1 .. n : p[j] = i}

\* Does the try block raise?  KeyError on qa["correct_answer_key"] or on
\* qa["options"][correct_key]; IndexError on "ABCD"[idx] at the fifth item.
ShuffleRaises(qa) ==
    \/ "correct_answer_key" \notin qa.keys
    \/ TextAt(qa.options, qa.correct_answer_key) = "missing"
    \/ Len(qa.options) > Len(Labels)

\* new_opts: the shuffled texts under the labels A, B, ...
NewOpts(qa, perm) ==
    [i \in DOMAIN qa.options |-> <<Labels[i], qa.options[perm[i]][2]>>]

\* new_key keeping the key the model gave.
NewKeyUnchanged(qa, perm) == qa.correct_answer_key

\* new_key: the loop sets it at every item whose text equals correct_text,
\* so it ends as the label of the last such item.
NewKey(qa, perm) ==
    LET correct_text == TextAt(qa.options, qa.correct_answer_key)
        hits == {i \in DOMAIN qa.options : qa.options[perm[i]][2] = correct_text}
    IN  Labels[CHOOSE i \in hits : \A j \in hits : j <= i]

\* The qa that shuffle_qa_options returns when random.shuffle gives perm.
shuffled(qa, perm) ==
    IF ShuffleRaises(qa) THEN qa
    ELSE [qa EXCEPT !.options = NewOpts(qa, perm),
                    !.correct_answer_key = NewKey(qa, perm)]

ShuffleInit ==
    /\ script \in TempoScripts
    /\ ledger = <<>>
    /\ RunIdle
    /\ TextOff
    /\ PairOff
    /\ response = [kind |-> "none", items |-> <<>>]
    /\ qa_items \in {<<qa>> : qa \in ShuffleInputs}
    /\ unit_out = <<>>
    /\ upc = "answered"

\* "qa = shuffle_qa_options(qa)".  When the try block raises, the order
\* random.shuffle gave is seen by nobody: one order stands for all.
Shuffle ==
    /\ upc = "answered"
    /\ \E perm \in (IF ShuffleRaises(qa_items[1])
                     THEN {[i \in DOMAIN qa_items[1].options |-> i]}
                     ELSE ShuffleOrders(Len(qa_items[1].options))) :
          unit_out' = <<shuffled(qa_items[1], perm)>>
    /\ upc' = "shuffled"
    /\ UNCHANGED <<response, qa_items, beyondUnit>>

ShuffleNext == Shuffle

ShuffleSpec == ShuffleInit /\ [][ShuffleNext]_vars

\* ------------------------------------------------------------ properties
IsPrefix(a, b) == Len(a) <= Len(b) /\ SubSeq(b, 1, Len(a)) = a

Ended(u) == stage[u] \in {"skipped", "failed"}

\* How many records a ledger holds for an identity.
CountOf(led, id) ==
    Cardinality({i \in DOMAIN led : led[i].kind = "rec" /\ led[i].id = id})

\* C1: in a generation run with resume enabled, the model client is invoked
\* zero times for every work unit whose video_id is on a parseable line of
\* the ledger as it was at the start of the run.
ResumeCorrectness ==
    (script \in GenScripts /\ run > 0 /\ resume) =>
        \A u \in Units : Ident(u) \in IdsIn(startLedger) => callLog[u] = <<>>

\* C2: when a later run of a sequence of (possibly killed) generation runs on
\* one ledger completes, the ledger holds for every work unit either no
\* record or exactly the expected number of records.
CrashSafeResume ==
    (script \in GenScripts /\ resume /\ run >= 2 /\ pc = "done") =>
        \A u \in Units :
            CountOf(ledger, Ident(u)) \in {0, ExpectedItemCount(script)}

\* C3: a unit for which an item of the model's answer fails validation
\* leaves no record in the ledger: once the run is over the ledger holds as
\* many records of the unit as before the run.
PerUnitAtomicity ==
    (script \in GenScripts /\ pc = "done") =>
        \A u \in Units :
            reason[u] = "schema_error" =>
                CountOf(ledger, Ident(u)) = CountOf(startLedger, Ident(u))

\* C4: no per-unit failure ends the loop: when a generation or evaluation
\* run is over, every unit that was pending at its start has been attempted,
\* whatever happened to the units before it.
BatchContinuation ==
    pc = "done" => \A i \in DOMAIN planned : stage[planned[i]] # "pending"

BatchContinuationReached ==
    /\ pc = "done"
    /\ planned = Enumeration
    /\ Ended(1)
    /\ reason[1] \in {"rate_limit", "format_error", "schema_error", "missing_input"}
    /\ stage[NumUnits] \in {"appended", "written"}

\* C5: every record of the evaluation whose is_correct is false has both
\* scores fixed at 0.0, and for a record evaluated in this run the answer
\* check is the only call made: no later model call, no scorer call.
EvalShortCircuit ==
    script = "evaluation" =>
        /\ \A led \in {ledger, buffer, processed} :
             \A i \in DOMAIN led :
                (led[i].kind = "rec" /\ led[i].is_correct = "false") =>
                    (led[i].factual = "zero" /\ led[i].core = "zero")
        /\ \A i \in DOMAIN processed :
             (/\ i > (IF resume THEN Len(startLedger) ELSE 0)
              /\ processed[i].is_correct = "false") =>
                    callLog[processed[i].src] = <<"answer">>

EvalShortCircuitReached ==
    /\ script = "evaluation"
    /\ pc = "done"
    /\ \E i \in DOMAIN ledger :
          /\ ledger[i].kind = "rec"
          /\ ledger[i].is_correct = "false"
          /\ callLog[ledger[i].src] = <<"answer">>

\* The calls of a fully scored record, in the order of the code.
FullCallOrder == <<"answer", "factual", "san_gold", "san_gen", "nli">>

\* The steps a record's stage may take.
StageSteps ==
    {<<"pending", "loaded">>, <<"loaded", "answer_checked">>,
     <<"answer_checked", "fully_scored">>, <<"answer_checked", "zero_scored">>,
     <<"fully_scored", "written">>, <<"zero_scored", "written">>,
     <<"pending", "skipped">>, <<"loaded", "failed">>,
     <<"answer_checked", "failed">>}

\* C6: a record of the evaluation moves loaded -> answer_checked ->
\* (fully_scored or zero_scored) -> written and never back; its first call is
\* the answer check, and a fully scored record had exactly the calls answer
\* check, factual consistency, sanitizer on the gold reasoning, sanitizer on
\* the generated reasoning, scorer, in this order.
EvalStageOrder ==
    /\ [](script = "evaluation" =>
            \A u \in Units :
               /\ IsPrefix(callLog[u], FullCallOrder)
               /\ stage[u] = "fully_scored" => callLog[u] = FullCallOrder
               /\ stage[u] = "zero_scored" => callLog[u] = <<"answer">>
               /\ stage[u] = "written" => callLog[u] \in {<<"answer">>, FullCallOrder}
               /\ stage[u] \in {"pending", "skipped"} => callLog[u] = <<>>)
    /\ [][script = "evaluation" =>
            \A u \in Units :
               stage'[u] # stage[u] =>
                  \/ <<stage[u], stage'[u]>> \in StageSteps
                  \/ stage'[u] = "pending" /\ (run' # run \/ pc' = "killed")]_vars

EvalStageOrderReached ==
    /\ script = "evaluation"
    /\ \E u \in Units : stage[u] = "written" /\ callLog[u] = FullCallOrder
    /\ \E u \in Units : stage[u] = "written" /\ callLog[u] = <<"answer">>

\* The number of calls the specification allows one invoke.
RetryLimit == IF script \in TempoScripts THEN 3 ELSE 5

\* C7: one invoke of the model client calls the service at most 5 times (3
\* in the tempo-sync scripts); an invoke gives up on a rate-limit error only
\* at that number of calls, no call follows, and the unit ends skipped with
\* no record appended.
BoundedRetry ==
    /\ [](/\ tries <= RetryLimit
          /\ \A u \in Units :
                reason[u] = "rate_limit" => (Ended(u) /\ written[u] = 0))
    /\ [][\A u \in Units :
             (reason[u] = "none" /\ reason'[u] = "rate_limit") =>
                 (tries' = RetryLimit /\ pc' = "loop")]_vars

BoundedRetryReached ==
    \E u \in Units :
        /\ reason[u] = "rate_limit"
        /\ tries = RetryLimit
        /\ pc = "loop"
        /\ Ended(u)

\* C8: an error of the model service that is no rate-limit error is not
\* retried: no invoke goes on to another call of the service after such an
\* error (an invoke whose first call fails so has called exactly once), and
\* the error ends the unit.
NoRetryOfPermanentFailure ==
    /\ (pc = "call" /\ tries > 0) => lastError # "permanent"
    /\ \A u \in Units : reason[u] = "permanent" => Ended(u)

\* C9: an evaluation run with resume enabled makes no model-client call for
\* an input record whose question is the question of a record of the prior
\* output ledger; a run with --no-resume processes every input record.
EvaluationResume ==
    (script = "evaluation" /\ run > 0) =>
        /\ resume =>
             \A u \in Units : Ident(u) \in IdsIn(startLedger) => callLog[u] = <<>>
        /\ (~resume /\ (Running \/ pc = "done")) => planned = Enumeration
        /\ (~resume /\ pc = "done") => \A u \in Units : stage[u] # "pending"

EvaluationResumeReached ==
    /\ script = "evaluation"
    /\ resume
    /\ pc = "done"
    /\ \E u \in Units : Ident(u) \in IdsIn(startLedger) /\ callLog[u] = <<>>
    /\ \E u \in Units : Ident(u) \notin IdsIn(startLedger) /\ callLog[u] # <<>>

\* C10: a ledger line that is no JSON, no JSON object, or lacks the identity
\* field never makes the loading of the ledger raise: the run gets to its
\* loop with the identities of the other lines loaded.
TolerantLedgerLoading ==
    run > 0 =>
        /\ pc # "aborted"
        /\ (Running \/ pc = "done") =>
              \A i \in DOMAIN planned :
                  ReadsLedger(script, resume) =>
                      Ident(planned[i]) \notin IdsIn(startLedger)

\* What the specification has rejected: an answer of the wrong shape or
\* length, or with an item that lacks a field or has not four options.
Rejectable(s, r) ==
    \/ r.kind # (IF s \in TempoScripts THEN "object" ELSE "list")
    \/ Len(r.items) # ExpectedItemCount(s)
    \/ \E i \in DOMAIN r.items :
          \/ ~(FieldKeys \subseteq r.items[i].keys)
          \/ Cardinality(r.items[i].options) # 4

\* C11: in every generation pipeline an answer of the model that is no list,
\* has not the expected number of items, or holds an item that lacks a
\* required key or whose options mapping has not exactly 4 entries, ends
\* with the unit skipped: such a unit is never appended.
ValidationRejection ==
    upc = "appended" => ~Rejectable(script, response)

\* C12: every record a generation pipeline (tempo-sync included) writes to
\* its ledger has the fields question, options, correct_answer_key and
\* gold_reasoning, and its correct_answer_key is a key of its options.
LedgerRecordInvariant ==
    \A i \in DOMAIN unit_out :
       /\ FieldKeys \subseteq unit_out[i].keys
       /\ unit_out[i].correct_answer_key \in unit_out[i].options

\* C13: every record a generation pipeline writes has video_id equal to the
\* identity of its unit and category equal to the pipeline's tag, whatever
\* the model gave for the two fields.
PipelineControlledIdentity ==
    \A i \in DOMAIN unit_out :
       /\ {"video_id", "category"} \subseteq unit_out[i].keys
       /\ unit_out[i].video_id = unit_vid
       /\ unit_out[i].category = CATEGORY(script)

PipelineControlledIdentityReached ==
    /\ upc = "appended"
    /\ Len(unit_out) = ExpectedItemCount(script)
    /\ \E i \in DOMAIN unit_out :
          /\ {"video_id", "category"} \subseteq response.items[i].keys
          /\ response.items[i].video_id # unit_vid
          /\ response.items[i].category # CATEGORY(script)
          /\ unit_out[i].video_id = unit_vid

\* C14: in every generation pipeline a unit with a required companion
\* caption absent or empty gets no call of the model client and no record
\* written.
MissingInputSkip ==
    script \in GenScripts =>
       /\ \A u \in Units :
             reason[u] = "missing_input" => (callLog[u] = <<>> /\ written[u] = 0)
       /\ (pending # <<>> /\ material \in {"missing", "empty"}) =>
             (callLog[Head(pending)] = <<>> /\ written[Head(pending)] = 0)

\* C15: an input record of the evaluation that lacks a required field gets
\* no model-client call, is not appended to the output set (it is not
\* zero-scored either) and so is not counted in the statistics.
IncompleteRecordSkipped ==
    script = "evaluation" =>
       \A u \in Units :
          reason[u] = "incomplete" =>
             /\ stage[u] = "skipped"
             /\ callLog[u] = <<>>
             /\ written[u] = 0
             /\ \A i \in DOMAIN processed :
                   processed[i].kind = "rec" => processed[i].src # u
             /\ pc = "done" =>
                   \A i \in DOMAIN ledger :
                      ledger[i].kind = "rec" => ledger[i].src # u

IncompleteRecordSkippedReached ==
    /\ script = "evaluation"
    /\ pc = "done"
    /\ reason[1] = "incomplete"
    /\ stage[NumUnits] = "written"
    /\ Len(ledger) = NumUnits - 1

\* The records of a sequence that hold a true is_correct.
CorrectIn(recs) ==
    {i \in DOMAIN recs : recs[i].kind = "rec" /\ Truthy(recs[i].is_correct)}

\* p hundredths of a percent is the nearest to 100 * k / n.
IsPercentOf(p, k, n) ==
    /\ 2 * (p * n - 10000 * k) <= n
    /\ 2 * (10000 * k - p * n) < n

NewLines == SubSeq(ledger, Len(startLedger) + 1, Len(ledger)) \o buffer

\* The place of the unit with identity id in the enumeration.
PositionOf(id) == CHOOSE k \in DOMAIN Enumeration : Ident(Enumeration[k]) = id

DurabilityBeforeMovingOn ==
    (script \in GenScripts /\ pc = "call") => buffer = <<>>

\* C19: an evaluation run does not touch the output ledger while a record is
\* pending; it rewrites it once, after the last pending record ended, so a
\* run interrupted before that leaves the ledger as it was.
EvaluationWritesOnce ==
    /\ []((script = "evaluation" /\ run > 0) =>
             /\ (pending # <<>> \/ pc \in {"call", "branch", "score"}) =>
                   ledger = startLedger
             /\ (pc = "killed" /\ ledger # startLedger) =>
                   (ledger = <<>> /\ startLedger # <<>>)
             /\ (pc = "done" /\ planned # <<>>) => ledger = processed)
    /\ [][(script = "evaluation" /\ ledger' # ledger) =>
             /\ pending = <<>>
             /\ \A i \in DOMAIN planned :
                   stage[planned[i]] \in {"skipped", "failed", "fully_scored",
                                          "zero_scored"}
             /\ \/ pc = "loop" /\ pc' = "writing"
                \/ pc = "writing" /\ pc' = "done"]_vars

EvaluationWritesOnceReached ==
    /\ script = "evaluation"
    /\ pc = "done"
    /\ startLedger # <<>>
    /\ ledger # startLedger
    /\ \E u \in Units : stage[u] = "written"
    /\ \E u \in Units : stage[u] = "failed"

\* C20: the lines the ledger held when a generation run started are an
\* unchanged prefix of the ledger at every point of the run and after it,
\* whether the run resumed or not, completed or was killed.
AppendOnlyLedger ==
    (script \in GenScripts /\ run > 0) => IsPrefix(startLedger, ledger)

AppendOnlyLedgerReached ==
    /\ script \in GenScripts
    /\ pc \in {"done", "killed"}
    /\ startLedger # <<>>
    /\ \E i \in DOMAIN startLedger : startLedger[i].kind = "rec"
    /\ Len(ledger) > Len(startLedger)

\* C21: a qa_generation script run with --no-resume ignores the previous
\* progress: every enumerated unit is planned whatever the ledger holds, and
\* after the run no identity has records both from before the run and from
\* the run.
NoResumeStartsFresh ==
    (script \in CliScripts /\ run > 0 /\ ~resume) =>
       /\ (Running \/ pc = "done") => planned = Enumeration
       /\ pc = "done" =>
             \A u \in Units :
                ~ /\ CountOf(startLedger, Ident(u)) > 0
                  /\ CountOf(ledger, Ident(u)) > CountOf(startLedger, Ident(u))
\* C22: an invoke of the model client that is no backoff retry (the first
\* call of an invoke) starts only when the inter-call pause has been executed
\* since the previous call of the model service.
PolitenessDelay == (pc = "call" /\ tries = 0) => paused

\* The processes that wrote a record of unit u to the shared ledger.
WritersOf(u) ==
    {disk[i].by : i \in {j \in DOMAIN disk : disk[j].id = Ident(u)}}

\* C23: two runs of one script on one ledger never hold the ledger open for
\* writing at the same time, and never both append records for a unit.
ExclusiveWriter ==
    /\ Cardinality({p \in Procs : out_f[p] = "open"}) <= 1
    /\ \A u \in Units : Cardinality(WritersOf(u)) <= 1

\* C24: the clean-up of the answer text is idempotent: applied to its own
\* result it changes nothing.
NormalizeIdempotent == applied >= 2 => txt = prev

\* How often the model was invoked for unit u in the current run.
Invokes(u) == Cardinality({i \in DOMAIN callLog[u] : callLog[u][i] = "generate"})

\* Every unit the run planned is in a terminal state, handled once.
AllTerminal ==
    \A i \in DOMAIN planned :
       /\ stage[planned[i]] \in {"appended", "skipped"}
       /\ Invokes(planned[i]) <= 1
       /\ \A j \in DOMAIN planned : planned[j] = planned[i] => j = i

\* C25: when no call of the model service hangs, a started generation run
\* terminates, and at its end every unit it planned is in exactly one of
\* the terminal states appended and skipped and was handled at most once.
TerminationInTerminalState ==
    /\ (pc = "loop" /\ script \in GenScripts) ~> (pc = "done")
    /\ [](pc = "done" => AllTerminal)

TerminationInTerminalStateReached ==
    /\ pc = "done"
    /\ Len(planned) = NumUnits
    /\ \E u, v \in Units : stage[u] = "appended" /\ stage[v] = "skipped"

\* The places of processed_records that the current run filled.
AddedPlaces ==
    {i \in DOMAIN processed : i > (IF resume THEN Len(startLedger) ELSE 0)}

\* C26: every record the current evaluation run adds to its output carries
\* the three sub-records (answer correctness, factual consistency, core
\* inference), and an input record on which a stage raised is in neither
\* the records the aggregates are computed from nor the written ledger.
NoPartialRecord ==
    (script = "evaluation" /\ (Running \/ pc = "done")) =>
       /\ \A i \in AddedPlaces :
             /\ processed[i].is_correct # "none"
             /\ processed[i].factual # "none"
             /\ processed[i].core # "none"
       /\ \A u \in Units :
             stage[u] = "failed" =>
                /\ \A i \in AddedPlaces : processed[i].src # u
                /\ (pc = "done" /\ planned # <<>>) =>
                      /\ ledger = processed
                      /\ \A i \in AddedPlaces : ledger[i].src # u

NoPartialRecordReached ==
    /\ script = "evaluation"
    /\ pc = "done"
    /\ \E u, v \in Units :
          /\ stage[u] = "failed"
          /\ Len(callLog[u]) >= 2
          /\ stage[v] = "written"
          /\ Len(callLog[v]) = 5

\* The lines of the ledger behind those it held when the run started.
AfterPrior == SubSeq(ledger, Len(startLedger) + 1, Len(ledger))

\* C27: a finished resumed evaluation run that had pending records leaves
\* the prior records, unchanged and in their order, followed by the records
\* it evaluated, in input order; one that had no pending record leaves the
\* output file as it was.
ResumedEvaluationPreservesPrior ==
    (script = "evaluation" /\ resume /\ run > 0 /\ pc = "done") =>
       IF planned = <<>>
       THEN ledger = startLedger
       ELSE /\ IsPrefix(startLedger, ledger)
            /\ \A i \in DOMAIN AfterPrior :
                  /\ AfterPrior[i].kind = "rec"
                  /\ stage[AfterPrior[i].src] = "written"
                  /\ \E k \in DOMAIN planned : planned[k] = AfterPrior[i].src
            /\ \A i, j \in DOMAIN AfterPrior :
                  i < j => AfterPrior[i].src < AfterPrior[j].src
            /\ \A u \in Units :
                  stage[u] = "written" =>
                     \E i \in DOMAIN AfterPrior : AfterPrior[i].src = u

ResumedEvaluationPreservesPriorReached ==
    /\ script = "evaluation"
    /\ resume
    /\ pc = "done"
    /\ run = 2
    /\ \E i \in DOMAIN startLedger : startLedger[i].kind = "rec"
    /\ Len(ledger) > Len(startLedger)

\* Does the ledger led hold a record made from unit w?
HasRecordOf(led, w) == \E i \in DOMAIN led : led[i].src = w

\* Did the current run plan unit w?
IsPlanned(w) == \E k \in DOMAIN planned : planned[k] = w

\* C28: a resumed evaluation run evaluates every input record whose pair of
\* video_id and question has no record in the prior ledger, also when a
\* record with the same question and another video_id is in the ledger.
NoEvaluationWorkLost ==
    (script = "evaluation" /\ run > 0 /\ pc \in {"loop", "done"}) =>
       \A w \in Twins : ~HasRecordOf(startLedger, w) => IsPlanned(w)

\* C30: the aligned and the misaligned clip whose caption files share a
\* name are two units of tsa_generation.py: a run that found neither done
\* plans both and writes a record for each one that succeeds, and the
\* record of one does not make a resumed run leave the other out.
DistinctTempoUnits ==
    (script = "tsa_generation" /\ run > 0 /\ pc \in {"loop", "done"}) =>
       /\ \A w \in Twins : ~HasRecordOf(startLedger, w) => IsPlanned(w)
       /\ \A w \in Twins :
             Cardinality({i \in DOMAIN ledger : ledger[i].src = w}) <= 1

\* A resumed generation run starts after a finished one.
ResumedAfterDone ==
    script \in GenScripts /\ pc = "done" /\ pc' = "loop" /\ resume'

\* C29: a unit that ended skipped in a finished run, with no record written
\* and none in the ledger, is planned by the resumed run that follows; and a
\* resumed run adds records only for units the ledger held no record of, so
\* that repeated runs leave one set of records per unit at most.
FailedUnitsRetried ==
    /\ [][ResumedAfterDone =>
             \A u \in Units :
                (stage[u] = "skipped" /\ written[u] = 0
                    /\ CountOf(ledger, Ident(u)) = 0)
                => \E k \in DOMAIN planned' : planned'[k] = u]_vars
    /\ []((script \in GenScripts /\ run > 0 /\ resume) =>
             \A u \in Units :
                CountOf(ledger, Ident(u)) > CountOf(startLedger, Ident(u))
                => CountOf(startLedger, Ident(u)) = 0)

\* C31: the output ledger of the evaluation holds one record at most for
\* each question text, whatever runs with resume on were made and also when
\* the input holds a question text more than once.
OneRecordPerQuestion ==
    script = "evaluation" =>
       \A n \in Names :
          Cardinality({i \in DOMAIN ledger : ledger[i].id = n}) <= 1

\* How many options of opts have the text t.
TextCount(opts, t) == Cardinality({i \in DOMAIN opts : opts[i][2] = t})

\* The question has up to 4 options and its correct_answer_key is a key of
\* its options.
Shufflable(qa) ==
    /\ Len(qa.options) <= 4
    /\ "correct_answer_key" \in qa.keys
    /\ \E i \in DOMAIN qa.options : qa.options[i][1] = qa.correct_answer_key

\* C32: after shuffle_qa_options on a question with up to 4 options and a
\* correct_answer_key among their labels, the labels are the first letters
\* of ABCD, every text occurs as often as before, and the text under
\* correct_answer_key is the one that was under it before; on any other
\* question options and correct_answer_key are as they were.
ShuffleKeepsAnswer ==
    upc = "shuffled" =>
       LET before == qa_items[1]
           after == unit_out[1]
       IN  IF Shufflable(before)
           THEN /\ Len(after.options) = Len(before.options)
                /\ \A i \in DOMAIN after.options :
                      after.options[i][1] = <<"A", "B", "C", "D">>[i]
                /\ \A t \in OptionTexts :
                      TextCount(after.options, t) = TextCount(before.options, t)
                /\ TextAt(after.options, after.correct_answer_key)
                      = TextAt(before.options, before.correct_answer_key)
           ELSE /\ after.options = before.options
                /\ after.correct_answer_key = before.correct_answer_key

ShuffleKeepsAnswerReached ==
    /\ upc = "shuffled"
    /\ Shufflable(qa_items[1])
    /\ Len(qa_items[1].options) = 4
    /\ unit_out[1].correct_answer_key # qa_items[1].correct_answer_key
    /\ \E i, j \in DOMAIN unit_out[1].options :
          /\ i # j
          /\ unit_out[1].options[i][2] = unit_out[1].options[j][2]
          /\ unit_out[1].options[i][1] = unit_out[1].correct_answer_key

\* C33: in every record the evaluation run adds, is_correct is a boolean and
\* the record is fully scored exactly when it is true (an answer without
\* is_correct counts as false, so its record is zero-scored).
AnswerCheckIsBoolean ==
    (script = "evaluation" /\ (Running \/ pc = "done")) =>
       \A i \in AddedPlaces :
          /\ processed[i].is_correct \in {"true", "false"}
          /\ processed[i].core = "nli" <=> processed[i].is_correct = "true"
          /\ processed[i].core = "zero" <=> processed[i].is_correct = "false"

\* The units whose full set of records the current run wrote.
FullyWritten == {u \in Units : written[u] = ExpectedItemCount(script)}

\* C34: at the end of a cr_generation run the two counters add up to the
\* number of planned units, success_count is the number of units whose full
\* set of records was appended, and a unit counted as failed added no record
\* to the ledger.
SummaryCounts ==
    (script = "cr_generation" /\ pc = "done" /\ planned # <<>>) =>
       /\ success_count + error_count = Len(planned)
       /\ success_count = Cardinality(FullyWritten)
       /\ \A u \in Units : stage[u] = "skipped" => written[u] = 0

\* Is the comma at place i of t followed by whitespace only and then by a
\* closing brace or bracket?
RECURSIVE ClosesAfter(_, _)
ClosesAfter(t, i) ==
    /\ i <= Len(t)
    /\ \/ t[i] \in {"}", "]"}
       \/ t[i] = " " /\ ClosesAfter(t, i + 1)

\* Do three backticks stand at the places i, i + 1, i + 2 of t?
FenceAt(t, i) ==
    /\ i >= 1
    /\ i + 2 <= Len(t)
    /\ \A k \in 0 .. 2 : t[i + k] = BACKTICK

\* C35: the result of the clean-up holds no comma followed by whitespace
\* only and a closing brace or bracket, and neither starts nor ends with a
\* code-fence marker.
NormalizerOutputRepaired ==
    applied >= 1 =>
       /\ \A i \in DOMAIN txt : txt[i] = "," => ~ClosesAfter(txt, i + 1)
       /\ ~FenceAt(txt, 1)
       /\ ~FenceAt(txt, Len(txt) - 2)

====
